---------------------------- MODULE Spec2Model ----------------------------
(***************************************************************************)
(* A model of vanisher.main.Vanisher: a JSON configuration store with      *)
(* dot-notation paths, environment-variable overrides and persistence to  *)
(* a backing file.                                                         *)
(*                                                                         *)
(* Representation.                                                         *)
(*   - A Python str is a sequence of one-character strings, so that        *)
(*     str.split("."), str.replace, str.upper, str.strip and int(str) are   *)
(*     computed character by character.                                    *)
(*   - A Python/JSON value is a tagged record: None, bool, int, str, list   *)
(*     or dict.  A dict keeps insertion order: it is a sequence of          *)
(*     [k, v] entries with pairwise distinct keys.                          *)
(*   - A float is finite, infinite or nan; a finite one is kept in          *)
(*     hundredths (m = 314 is 3.14), which the literals used here fit.      *)
(*   - The backing file is [exists, toks]: toks is the JSON text at token   *)
(*     granularity (punctuation tokens and one token per scalar).           *)
(*   - A reference kept by the caller is either the very object found at   *)
(*     a key path of data (an alias) or an object of the caller's own that  *)
(*     shares nothing with data (a copy).                                   *)
(*   - An exception is an outcome of the operation: "type_error",           *)
(*     "attr_error", "value_error" or "io_error" in last.res.               *)
(***************************************************************************)
EXTENDS Integers, Sequences, FiniteSets, TLC

VARIABLES
    data,           \* Vanisher._data
    file,           \* the file at Vanisher._path
    env,            \* os.environ, restricted to the names of EnvNames
    env_override,   \* Vanisher.env_override
    last,           \* the last call made on the store, its arguments and outcome
    faults,         \* file-system events outside the store's control so far
    held            \* the object reference the caller keeps from its last call

vars == <<data, file, env, env_override, last, faults, held>>

---------------------------------------------------------------------------
(* Values *)

None == [t |-> "none"]
Bool(b) == [t |-> "bool", b |-> b]
Num(n) == [t |-> "int", n |-> n]
Str(s) == [t |-> "str", s |-> s]
List(xs) == [t |-> "list", xs |-> xs]

\* A float: k is "fin", "inf", "ninf" or "nan"; m the hundredths of a finite one
Float(k, m) == [t |-> "float", k |-> k, m |-> m]
Dict(es) == [t |-> "dict", es |-> es]

Entry(k, v) == [k |-> k, v |-> v]

\* isinstance(v, dict)
IsDict(v) == v.t = "dict"

\* k in d, for a dict d
HasKey(d, k) == \E i \in 1..Len(d.es) : d.es[i].k = k

KeyIndex(d, k) == CHOOSE i \in 1..Len(d.es) : d.es[i].k = k

\* d[k], for a dict d that has k
Lookup(d, k) == d.es[KeyIndex(d, k)].v

\* d[k] = v: a present key keeps its position, a new key goes last
Put(d, k, v) ==
    IF HasKey(d, k)
    THEN Dict([d.es EXCEPT ![KeyIndex(d, k)] = Entry(k, v)])
    ELSE Dict(Append(d.es, Entry(k, v)))

\* del d[k]
Del(d, k) == Dict(SelectSeq(d.es, LAMBDA e : e.k # k))

\* dict.keys() as a set
KeySet(d) == {d.es[i].k : i \in 1..Len(d.es)}

\* Python's == on JSON values: dicts compare regardless of insertion order
RECURSIVE PyEq(_, _)
PyEq(v, w) ==
    IF v.t # w.t THEN FALSE
    ELSE IF v.t = "dict"
    THEN /\ KeySet(v) = KeySet(w)
         /\ \A k \in KeySet(v) : PyEq(Lookup(v, k), Lookup(w, k))
    ELSE IF v.t = "list"
    THEN /\ Len(v.xs) = Len(w.xs)
         /\ \A i \in 1..Len(v.xs) : PyEq(v.xs[i], w.xs[i])
    ELSE v = w

---------------------------------------------------------------------------
(* Strings *)

\* str.split("."): the segments between dots, empty segments kept
RECURSIVE Split(_)
Split(s) ==
    IF s = <<>> THEN << <<>> >>
    ELSE LET rest == Split(Tail(s))
         IN  IF Head(s) = "."
             THEN << <<>> >> \o rest
             ELSE << <<Head(s)>> \o Head(rest) >> \o Tail(rest)

\* str.upper(), one character
Upper(c) ==
    CASE c = "a" -> "A"
      [] c = "b" -> "B"
      [] c = "c" -> "C"
      [] c = "e" -> "E"
      [] c = "f" -> "F"
      [] c = "i" -> "I"
      [] c = "t" -> "T"
      [] c = "o" -> "O"
      [] c = "n" -> "N"
      [] c = "x" -> "X"
      [] c = "y" -> "Y"
      [] OTHER -> c

\* str.lower(), one character
Lower(c) ==
    CASE c = "A" -> "a"
      [] c = "B" -> "b"
      [] c = "C" -> "c"
      [] c = "E" -> "e"
      [] c = "F" -> "f"
      [] c = "I" -> "i"
      [] c = "T" -> "t"
      [] c = "O" -> "o"
      [] c = "N" -> "n"
      [] c = "X" -> "x"
      [] c = "Y" -> "y"
      [] OTHER -> c

\* Vanisher._env_key: key.replace(".", "_").upper()
_env_key(key) ==
    [i \in 1..Len(key) |-> IF key[i] = "." THEN "_" ELSE Upper(key[i])]

---------------------------------------------------------------------------
(* Core access *)

\* os.getenv(name): the variable's value, or None
getenv(e, name) == IF name \in DOMAIN e THEN Str(e[name]) ELSE None

\* _check_env without the test of env_override
_check_env_always(e, ov, key) == getenv(e, _env_key(key))

\* Vanisher._check_env
_check_env(e, ov, key) == IF ~ov THEN None ELSE getenv(e, _env_key(key))

\* The loop of Vanisher._get_single and Vanisher.has over the segments keys:
\* [found, value] of the walk from current.
RECURSIVE Walk(_, _)
Walk(current, keys) ==
    IF keys = <<>> THEN [found |-> TRUE, value |-> current]
    ELSE IF ~IsDict(current) \/ ~HasKey(current, Head(keys))
    THEN [found |-> FALSE, value |-> None]
    ELSE Walk(Lookup(current, Head(keys)), Tail(keys))

\* Vanisher._get_single
_get_single(d, key, default) ==
    LET w == Walk(d, Split(key)) IN IF w.found THEN w.value ELSE default

\* _resolve with the precedence reversed: the stored value first
_resolve_data_first(d, e, ov, key, default) ==
    LET env_val == _check_env(e, ov, key)
        w == Walk(d, Split(key))
    IN  IF w.found THEN w.value ELSE IF env_val # None THEN env_val ELSE default

\* Vanisher._resolve
_resolve(d, e, ov, key, default) ==
    LET env_val == _check_env(e, ov, key)
    IN  IF env_val # None THEN env_val ELSE _get_single(d, key, default)

\* Vanisher.get with one key
get(d, e, ov, key, default) == _resolve(d, e, ov, key, default)

\* has as "the resolved value is not None": a stored null counts as absent
has_not_none(d, e, ov, key) == _resolve(d, e, ov, key, None) # None

\* Vanisher.has
has(d, e, ov, key) ==
    IF ov /\ _check_env(e, ov, key) # None THEN TRUE
    ELSE Walk(d, Split(key)).found

---------------------------------------------------------------------------
(* Mutation of the nested mapping.  An operation on data returns          *)
(* [res, data]: res is "ok" or the exception raised, data the mapping as  *)
(* the call leaves it.                                                    *)

Done(d) == [res |-> "ok", data |-> d]
Raised(exc, d) == [res |-> exc, data |-> d]

\* _set_single that puts a new empty mapping at every segment on the way,
\* whatever is there
RECURSIVE SetIn_fresh(_, _, _)
SetIn_fresh(current, keys, value) ==
    IF Len(keys) = 1 THEN Put(current, keys[1], value)
    ELSE Put(current, Head(keys), SetIn_fresh(Dict(<<>>), Tail(keys), value))

\* The loop and the final assignment of Vanisher._set_single below a dict current
RECURSIVE SetIn(_, _, _)
SetIn(current, keys, value) ==
    IF Len(keys) = 1 THEN Put(current, keys[1], value)
    ELSE LET k == Head(keys)
             child == IF ~HasKey(current, k) \/ ~IsDict(Lookup(current, k))
                      THEN Dict(<<>>)
                      ELSE Lookup(current, k)
         IN  Put(current, k, SetIn(child, Tail(keys), value))

\* Vanisher._set_single.  When self._data is no dict, "k not in current",
\* "current[k]" or "current[k] = ..." raises TypeError on the first segment,
\* whatever the non-dict value is, before anything is assigned.
_set_single(d, key, value) ==
    IF ~IsDict(d) THEN Raised("type_error", d)
    ELSE Done(SetIn(d, Split(key), value))

\* Vanisher._delete_single: [value, data]; value None also when nothing is deleted
RECURSIVE DeleteIn(_, _)
DeleteIn(current, keys) ==
    IF Len(keys) = 1
    THEN IF IsDict(current) /\ HasKey(current, keys[1])
         THEN [value |-> Lookup(current, keys[1]), data |-> Del(current, keys[1])]
         ELSE [value |-> None, data |-> current]
    ELSE IF ~IsDict(current) \/ ~HasKey(current, Head(keys))
    THEN [value |-> None, data |-> current]
    ELSE LET r == DeleteIn(Lookup(current, Head(keys)), Tail(keys))
         IN  [value |-> r.value, data |-> Put(current, Head(keys), r.data)]

\* _delete_single without its "del": the value is returned, the key stays
_delete_single_keep(d, key) == [value |-> DeleteIn(d, Split(key)).value, data |-> d]

_delete_single(d, key) == DeleteIn(d, Split(key))

\* The loop of Vanisher.delete over keys: [deleted, data]
RECURSIVE DeleteLoop(_, _, _)
DeleteLoop(d, keys, deleted) ==
    IF keys = <<>> THEN [deleted |-> deleted, data |-> d]
    ELSE LET r == _delete_single(d, Head(keys))
         IN  DeleteLoop(r.data, Tail(keys),
                        IF r.value # None THEN Put(deleted, Head(keys), r.value)
                        ELSE deleted)

\* The loop of set over the items taken last to first
RECURSIVE SetLoop_reversed(_, _)
SetLoop_reversed(d, items) ==
    IF items = <<>> THEN Done(d)
    ELSE LET r == _set_single(d, items[Len(items)].k, items[Len(items)].v)
         IN  IF r.res # "ok" THEN r
             ELSE SetLoop_reversed(r.data, SubSeq(items, 1, Len(items) - 1))

\* The loop of Vanisher.set over the items of a dict argument
RECURSIVE SetLoop(_, _)
SetLoop(d, items) ==
    IF items = <<>> THEN Done(d)
    ELSE LET r == _set_single(d, Head(items).k, Head(items).v)
         IN  IF r.res # "ok" THEN r ELSE SetLoop(r.data, Tail(items))

\* The in-memory part of Vanisher.set: the items of a dict in iteration
\* order, a single str key, and TypeError for a key of any other type
set(d, key, value) ==
    IF key.t = "dict" THEN SetLoop(d, key.es)
    ELSE IF key.t = "str" THEN _set_single(d, key.s, value)
    ELSE Raised("type_error", d)

\* _deep_merge of Vanisher.merge, for dicts a and b
RECURSIVE _deep_merge(_, _)
_deep_merge(a, b) ==
    IF b.es = <<>> THEN a
    ELSE LET k == Head(b.es).k
             v == Head(b.es).v
             a1 == IF HasKey(a, k) /\ IsDict(Lookup(a, k)) /\ IsDict(v)
                   THEN Put(a, k, _deep_merge(Lookup(a, k), v))
                   ELSE Put(a, k, v)
         IN  _deep_merge(a1, Dict(Tail(b.es)))

\* The in-memory part of Vanisher.merge.  On a non-dict self._data the first
\* item raises TypeError ("k in a", "a[k]" or "a[k] = ..."); with no item
\* nothing is evaluated.
MergeData(d, new_data) ==
    IF new_data.es = <<>> THEN Done(d)
    ELSE IF ~IsDict(d) THEN Raised("type_error", d)
    ELSE Done(_deep_merge(d, new_data))

\* dict.update of Vanisher.update: "if data: self._data.update(data)"
RECURSIVE DictUpdate(_, _)
DictUpdate(a, es) ==
    IF es = <<>> THEN a ELSE DictUpdate(Put(a, Head(es).k, Head(es).v), Tail(es))

\* The in-memory part of Vanisher.update: only a dict has update()
UpdateData(d, new_data) ==
    IF new_data.es = <<>> THEN Done(d)
    ELSE IF ~IsDict(d) THEN Raised("attr_error", d)
    ELSE Done(DictUpdate(d, new_data.es))

\* self._data.clear(): a dict or a list is emptied in place, anything else
\* has no clear()
ClearData(d) ==
    IF IsDict(d) THEN Done(Dict(<<>>))
    ELSE IF d.t = "list" THEN Done(List(<<>>))
    ELSE Raised("attr_error", d)

\* _walk of Vanisher.list_keys over a dict d: the paths of its leaves
RECURSIVE _walk(_, _)
_walk(d, prefix) ==
    IF d.es = <<>> THEN <<>>
    ELSE LET k == Head(d.es).k
             v == Head(d.es).v
             path == IF prefix # <<>> THEN prefix \o <<".">> \o k ELSE k
         IN  (IF IsDict(v) THEN _walk(v, path) ELSE <<path>>)
             \o _walk(Dict(Tail(d.es)), prefix)

\* Vanisher.list_keys: [res, keys]; d.items() raises AttributeError on a non-dict
list_keys(d) ==
    IF ~IsDict(d) THEN [res |-> "attr_error", keys |-> <<>>]
    ELSE [res |-> "ok", keys |-> _walk(d, <<>>)]

\* Vanisher.__len__: [res, n]
len(d) == [res |-> list_keys(d).res, n |-> Len(list_keys(d).keys)]

---------------------------------------------------------------------------
(* JSON text, at token granularity *)

Tok(name) == [t |-> name]
NumberTok(n) == [t |-> "number", n |-> n]
StringTok(s) == [t |-> "string", s |-> s]

\* A number with a fraction part, or Infinity, -Infinity, NaN (allow_nan is
\* left at its default, True, by json.dump and json.load)
FloatTok(k, m) == [t |-> "float", k |-> k, m |-> m]

\* json.dumps / json.dump: the tokens of the document for value v
RECURSIVE dumps(_)
RECURSIVE DumpItems(_)
RECURSIVE DumpMembers(_)
DumpItems(xs) ==
    IF xs = <<>> THEN <<>>
    ELSE dumps(Head(xs))
         \o (IF Len(xs) > 1 THEN <<Tok(",")>> ELSE <<>>)
         \o DumpItems(Tail(xs))

DumpMembers(es) ==
    IF es = <<>> THEN <<>>
    ELSE <<StringTok(Head(es).k), Tok(":")>> \o dumps(Head(es).v)
         \o (IF Len(es) > 1 THEN <<Tok(",")>> ELSE <<>>)
         \o DumpMembers(Tail(es))

dumps(v) ==
    CASE v.t = "none" -> <<Tok("null")>>
      [] v.t = "bool" -> <<Tok(IF v.b THEN "true" ELSE "false")>>
      [] v.t = "int"  -> <<NumberTok(v.n)>>
      [] v.t = "float" -> <<FloatTok(v.k, v.m)>>
      [] v.t = "str"  -> <<StringTok(v.s)>>
      [] v.t = "list" -> <<Tok("[")>> \o DumpItems(v.xs) \o <<Tok("]")>>
      [] v.t = "dict" -> <<Tok("{")>> \o DumpMembers(v.es) \o <<Tok("}")>>

\* The JSON decoder: [ok, value, rest] of parsing one value at the head of toks
ParseFail == [ok |-> FALSE, value |-> None, rest |-> <<>>]
Parsed(v, rest) == [ok |-> TRUE, value |-> v, rest |-> rest]

RECURSIVE ParseValue(_)
RECURSIVE ParseElems(_, _)
RECURSIVE ParseMembers(_, _)
ParseElems(toks, acc) ==
    LET r == ParseValue(toks)
    IN  IF ~r.ok \/ r.rest = <<>> THEN ParseFail
        ELSE IF Head(r.rest).t = "," THEN ParseElems(Tail(r.rest), Append(acc, r.value))
        ELSE IF Head(r.rest).t = "]" THEN Parsed(List(Append(acc, r.value)), Tail(r.rest))
        ELSE ParseFail

\* A repeated member name keeps its first position and takes its last value
ParseMembers(toks, d) ==
    IF Len(toks) < 2 \/ Head(toks).t # "string" \/ toks[2].t # ":" THEN ParseFail
    ELSE LET r == ParseValue(Tail(Tail(toks)))
             d1 == Put(d, Head(toks).s, r.value)
         IN  IF ~r.ok \/ r.rest = <<>> THEN ParseFail
             ELSE IF Head(r.rest).t = "," THEN ParseMembers(Tail(r.rest), d1)
             ELSE IF Head(r.rest).t = "}" THEN Parsed(d1, Tail(r.rest))
             ELSE ParseFail

ParseValue(toks) ==
    IF toks = <<>> THEN ParseFail
    ELSE LET h == Head(toks)
             rest == Tail(toks)
         IN  CASE h.t = "null"   -> Parsed(None, rest)
               [] h.t = "true"   -> Parsed(Bool(TRUE), rest)
               [] h.t = "false"  -> Parsed(Bool(FALSE), rest)
               [] h.t = "number" -> Parsed(Num(h.n), rest)
               [] h.t = "float"  -> Parsed(Float(h.k, h.m), rest)
               [] h.t = "string" -> Parsed(Str(h.s), rest)
               [] h.t = "["      ->
                    IF rest # <<>> /\ Head(rest).t = "]"
                    THEN Parsed(List(<<>>), Tail(rest))
                    ELSE ParseElems(rest, <<>>)
               [] h.t = "{"      ->
                    IF rest # <<>> /\ Head(rest).t = "}"
                    THEN Parsed(Dict(<<>>), Tail(rest))
                    ELSE ParseMembers(rest, Dict(<<>>))
               [] OTHER -> ParseFail

\* json.loads / json.load: [ok, value]; not ok is JSONDecodeError (text after
\* the document is an error too)
loads(toks) ==
    LET r == ParseValue(toks)
    IN  IF r.ok /\ r.rest = <<>> THEN [ok |-> TRUE, value |-> r.value]
        ELSE [ok |-> FALSE, value |-> None]

---------------------------------------------------------------------------
(* File operations.  io is what the file system does during the call:     *)
(* "ok", or a fault.                                                      *)

File(toks) == [exists |-> TRUE, toks |-> toks]
NoFile == [exists |-> FALSE, toks |-> <<>>]

\* Faults of a write: open() fails and the file is untouched ("open_fail"); or
\* json.dump fails after open(path, "w") truncated the file ("trunc"), which
\* leaves a proper prefix of the document: here its first token.
WriteFaults == {"open_fail", "trunc"}

\* Faults of a read: open() or read() of the existing file fails with OSError
\* ("read_fail"); or the file is missing and open(path, "w"), which is to
\* create it, fails with OSError ("create_fail")
ReadFaults == {"read_fail", "create_fail"}

\* Bytes in a file that are not UTF-8 text
BytesTok == Tok("bytes")

\* The file decodes as UTF-8
IsText(toks) == \A i \in 1..Len(toks) : toks[i] # BytesTok

\* write that returns without having written
write_stale(f, d, io) == [res |-> IF io = "ok" THEN "ok" ELSE "io_error", file |-> f]

\* Vanisher.write: [res, file]; OSError is re-raised as RuntimeError
write(f, d, io) ==
    CASE io = "ok"        -> [res |-> "ok", file |-> File(dumps(d))]
      [] io = "open_fail" -> [res |-> "io_error", file |-> f]
      [] io = "trunc"     -> [res |-> "io_error", file |-> File(SubSeq(dumps(d), 1, 1))]

\* Vanisher._safe_read: [res, data, file].  A missing file is created
\* holding {}, outside any try: an OSError of that open() leaves the method.
\* An existing file that cannot be opened or is no JSON reads as {} and is
\* left as it is; one that is no UTF-8 text raises UnicodeDecodeError, which
\* is neither JSONDecodeError nor OSError.  data is None where nothing is
\* returned.
_safe_read(f, io) ==
    IF ~f.exists
    THEN IF io = "create_fail" THEN [res |-> "os_error", data |-> None, file |-> f]
         ELSE [res |-> "ok", data |-> Dict(<<>>), file |-> File(dumps(Dict(<<>>)))]
    ELSE IF io = "read_fail" THEN [res |-> "ok", data |-> Dict(<<>>), file |-> f]
    ELSE IF ~IsText(f.toks) THEN [res |-> "unicode_error", data |-> None, file |-> f]
    ELSE LET r == loads(f.toks)
         IN  [res |-> "ok", data |-> IF r.ok THEN r.value ELSE Dict(<<>>), file |-> f]

\* Vanisher.export("json")
export(d) == dumps(d)

---------------------------------------------------------------------------
(* Typed getters *)

IsSpace(c) == c \in {" ", "\t", "\n"}
IsDigit(c) == c \in {"0", "1", "2", "3", "4", "5", "6", "7", "8", "9"}
DigitVal(c) ==
    CASE c = "0" -> 0 [] c = "1" -> 1 [] c = "2" -> 2 [] c = "3" -> 3
      [] c = "4" -> 4 [] c = "5" -> 5 [] c = "6" -> 6 [] c = "7" -> 7
      [] c = "8" -> 8 [] c = "9" -> 9

\* str.strip()
RECURSIVE LStrip(_)
LStrip(s) == IF s # <<>> /\ IsSpace(Head(s)) THEN LStrip(Tail(s)) ELSE s
RECURSIVE RStrip(_)
RStrip(s) ==
    IF s # <<>> /\ IsSpace(s[Len(s)]) THEN RStrip(SubSeq(s, 1, Len(s) - 1)) ELSE s
Strip(s) == RStrip(LStrip(s))

\* str.lower()
LowerStr(s) == [i \in 1..Len(s) |-> Lower(s[i])]

\* The digits of an int literal: digits with single underscores between them
DigitsOk(s) ==
    /\ s # <<>>
    /\ IsDigit(s[1]) /\ IsDigit(s[Len(s)])
    /\ \A i \in 1..Len(s) : IsDigit(s[i]) \/ s[i] = "_"
    /\ \A i \in 1..(Len(s) - 1) : ~(s[i] = "_" /\ s[i + 1] = "_")

RECURSIVE DigitsVal(_, _)
DigitsVal(s, acc) ==
    IF s = <<>> THEN acc
    ELSE IF Head(s) = "_" THEN DigitsVal(Tail(s), acc)
    ELSE DigitsVal(Tail(s), 10 * acc + DigitVal(Head(s)))

\* The outcome of a conversion: a number, or the exception raised
Converted(n) == [ok |-> TRUE, n |-> n, exc |-> "none"]
NotConverted(exc) == [ok |-> FALSE, n |-> 0, exc |-> exc]

\* An exception that leaves a getter, as the outcome of the call
Raise(exc) == [t |-> "raise", exc |-> exc]

\* float.__trunc__ of a finite float of m hundredths: towards zero
Trunc(m) == IF m < 0 THEN 0 - ((0 - m) \div 100) ELSE m \div 100

\* int(val): [ok, n, exc]; an infinite float is OverflowError, nan and a str
\* that is no int literal ValueError, None, a list or a dict TypeError
int(val) ==
    CASE val.t = "int"  -> Converted(val.n)
      [] val.t = "bool" -> Converted(IF val.b THEN 1 ELSE 0)
      [] val.t = "float" ->
            IF val.k = "fin" THEN Converted(Trunc(val.m))
            ELSE IF val.k = "nan" THEN NotConverted("value_error")
            ELSE NotConverted("overflow_error")
      [] val.t = "str"  ->
            LET s == Strip(val.s)
                signed == s # <<>> /\ Head(s) \in {"+", "-"}
                body == IF signed THEN Tail(s) ELSE s
            IN  IF DigitsOk(body)
                THEN Converted(IF signed /\ Head(s) = "-" THEN 0 - DigitsVal(body, 0)
                               ELSE DigitsVal(body, 0))
                ELSE NotConverted("value_error")
      [] OTHER -> NotConverted("type_error")

\* The try/except of Vanisher.get_int on the resolved value: ValueError and
\* TypeError give the default, any other exception leaves the getter
IntOr(val, default) ==
    IF int(val).ok THEN Num(int(val).n)
    ELSE IF int(val).exc \in {"value_error", "type_error"} THEN default
    ELSE Raise(int(val).exc)

\* Vanisher.get_int
get_int(d, e, ov, key, default) == IntOr(_resolve(d, e, ov, key, default), default)

TrueWords == {<<"t", "r", "u", "e">>, <<"y", "e", "s">>, <<"1">>, <<"o", "n">>}
FalseWords == {<<"f", "a", "l", "s", "e">>, <<"n", "o">>, <<"0">>, <<"o", "f", "f">>}

\* The body of Vanisher.get_bool on the resolved value
BoolOr(val, default) ==
    CASE val.t = "bool" -> val
      [] val.t = "str"  ->
            LET w == LowerStr(Strip(val.s))
            IN  IF w \in TrueWords THEN Bool(TRUE)
                ELSE IF w \in FalseWords THEN Bool(FALSE)
                ELSE default
      [] val.t = "int"  -> Bool(val.n # 0)
      [] val.t = "float" -> Bool(~(val.k = "fin" /\ val.m = 0))
      [] OTHER -> default

\* Vanisher.get_bool
get_bool(d, e, ov, key, default) == BoolOr(_resolve(d, e, ov, key, default), default)

\* The digits of a literal, underscores left out
Digits(s) == SelectSeq(s, IsDigit)

\* The hundredths of the fraction digits fp of a float literal
FracVal(fp) ==
    LET ds == Digits(fp)
    IN  (IF Len(ds) >= 1 THEN 10 * DigitVal(ds[1]) ELSE 0)
        + (IF Len(ds) >= 2 THEN DigitVal(ds[2]) ELSE 0)

InfWords == {<<"i", "n", "f">>, <<"i", "n", "f", "i", "n", "i", "t", "y">>}
NanWords == {<<"n", "a", "n">>}

\* float(s) for a str s: an optional sign, then inf, infinity or nan in any
\* case, or digits with at most one point (literals with an exponent are
\* not among the strings used here); anything else is ValueError
FloatOfStr(str) ==
    LET s == Strip(str)
        signed == s # <<>> /\ Head(s) \in {"+", "-"}
        neg == signed /\ Head(s) = "-"
        body == LowerStr(IF signed THEN Tail(s) ELSE s)
        parts == Split(body)
        ip == parts[1]
        fp == IF Len(parts) = 2 THEN parts[2] ELSE <<>>
        mag == 100 * (IF ip = <<>> THEN 0 ELSE DigitsVal(ip, 0)) + FracVal(fp)
    IN  IF body \in InfWords
        THEN [ok |-> TRUE, v |-> Float(IF neg THEN "ninf" ELSE "inf", 0), exc |-> "none"]
        ELSE IF body \in NanWords
        THEN [ok |-> TRUE, v |-> Float("nan", 0), exc |-> "none"]
        ELSE IF /\ Len(parts) <= 2
                /\ ip = <<>> \/ DigitsOk(ip)
                /\ fp = <<>> \/ DigitsOk(fp)
                /\ ip # <<>> \/ fp # <<>>
        THEN [ok |-> TRUE, v |-> Float("fin", IF neg THEN 0 - mag ELSE mag), exc |-> "none"]
        ELSE [ok |-> FALSE, v |-> None, exc |-> "value_error"]

\* float(val): [ok, v, exc]
float(val) ==
    CASE val.t = "float" -> [ok |-> TRUE, v |-> val, exc |-> "none"]
      [] val.t = "int"   -> [ok |-> TRUE, v |-> Float("fin", 100 * val.n), exc |-> "none"]
      [] val.t = "bool"  ->
            [ok |-> TRUE, v |-> Float("fin", IF val.b THEN 100 ELSE 0), exc |-> "none"]
      [] val.t = "str"   -> FloatOfStr(val.s)
      [] OTHER -> [ok |-> FALSE, v |-> None, exc |-> "type_error"]

\* The try/except of Vanisher.get_float on the resolved value
FloatOr(val, default) ==
    IF float(val).ok THEN float(val).v
    ELSE IF float(val).exc \in {"value_error", "type_error"} THEN default
    ELSE Raise(float(val).exc)

\* Vanisher.get_float
get_float(d, e, ov, key, default) == FloatOr(_resolve(d, e, ov, key, default), default)

\* The decimal digits of a natural number
RECURSIVE NatStr(_)
NatStr(n) ==
    LET c == <<"0", "1", "2", "3", "4", "5", "6", "7", "8", "9">>[(n % 10) + 1]
    IN  IF n < 10 THEN <<c>> ELSE NatStr(n \div 10) \o <<c>>

\* str(n) for an int
IntStr(n) == IF n < 0 THEN <<"-">> \o NatStr(0 - n) ELSE NatStr(n)

\* repr of a float: the shortest digits that read back as the same float
FloatStr(v) ==
    CASE v.k = "inf"  -> <<"i", "n", "f">>
      [] v.k = "ninf" -> <<"-", "i", "n", "f">>
      [] v.k = "nan"  -> <<"n", "a", "n">>
      [] OTHER ->
            LET mag == IF v.m < 0 THEN 0 - v.m ELSE v.m
                frac == mag % 100
            IN  (IF v.m < 0 THEN <<"-">> ELSE <<>>)
                \o NatStr(mag \div 100) \o <<".">>
                \o (IF frac % 10 = 0 THEN NatStr(frac \div 10)
                    ELSE NatStr(frac \div 10) \o NatStr(frac % 10))

\* repr(v): a str in quotes, a list or a dict with the repr of its parts
RECURSIVE repr(_)
RECURSIVE ReprItems(_)
RECURSIVE ReprMembers(_)
ReprItems(xs) ==
    IF xs = <<>> THEN <<>>
    ELSE repr(Head(xs))
         \o (IF Len(xs) > 1 THEN <<",", " ">> ELSE <<>>)
         \o ReprItems(Tail(xs))

ReprMembers(es) ==
    IF es = <<>> THEN <<>>
    ELSE <<"'">> \o Head(es).k \o <<"'", ":", " ">> \o repr(Head(es).v)
         \o (IF Len(es) > 1 THEN <<",", " ">> ELSE <<>>)
         \o ReprMembers(Tail(es))

repr(v) ==
    CASE v.t = "none"  -> <<"N", "o", "n", "e">>
      [] v.t = "bool"  -> IF v.b THEN <<"T", "r", "u", "e">>
                          ELSE <<"F", "a", "l", "s", "e">>
      [] v.t = "int"   -> IntStr(v.n)
      [] v.t = "float" -> FloatStr(v)
      [] v.t = "str"   -> <<"'">> \o v.s \o <<"'">>
      [] v.t = "list"  -> <<"[">> \o ReprItems(v.xs) \o <<"]">>
      [] v.t = "dict"  -> <<"{">> \o ReprMembers(v.es) \o <<"}">>

\* str(v): a str is itself, anything else its repr
str(v) == IF v.t = "str" THEN v ELSE Str(repr(v))

\* The body of Vanisher.get_str on the resolved value
StrOr(val, default) == IF val # None THEN str(val) ELSE default

\* Vanisher.get_str
get_str(d, e, ov, key, default) == StrOr(_resolve(d, e, ov, key, default), default)

\* val.split(","): the pieces between commas, empty pieces kept
RECURSIVE SplitComma(_)
SplitComma(s) ==
    IF s = <<>> THEN << <<>> >>
    ELSE LET rest == SplitComma(Tail(s))
         IN  IF Head(s) = ","
             THEN << <<>> >> \o rest
             ELSE << <<Head(s)>> \o Head(rest) >> \o Tail(rest)

\* The body of Vanisher.get_list on the resolved value
ListOr(val, default) ==
    CASE val.t = "list" -> val
      [] val.t = "str"  ->
            LET parts == SplitComma(val.s)
            IN  List([i \in 1..Len(parts) |-> Str(Strip(parts[i]))])
      [] OTHER -> default

\* Vanisher.get_list
get_list(d, e, ov, key, default) == ListOr(_resolve(d, e, ov, key, default), default)

\* The body of Vanisher.get_dict on the resolved value
DictOr(val, default) == IF IsDict(val) THEN val ELSE default

\* Vanisher.get_dict
get_dict(d, e, ov, key, default) == DictOr(_resolve(d, e, ov, key, default), default)

---------------------------------------------------------------------------
(* Inputs of the calls *)

\* At most this many file-system events outside the store's control in a
\* run: I/O faults, and changes of the file by another process
MaxFaults == 1

\* At most this many items in a batch set and keys in a delete
MaxBatch == 2

ka == <<"a">>
kb == <<"b">>
kab == <<"a", ".", "b">>

\* Dot-paths given to get, has, set and delete
Paths == {ka, kab}

\* Values given to set: one of each JSON kind
SetValues ==
    {None, Bool(TRUE), Num(1), Str(<<"1", "0">>), List(<<Num(1)>>),
     Dict(<<Entry(kb, Num(1))>>)}

\* Mappings given to merge, update and import_
Mappings ==
    {Dict(<<>>),
     Dict(<<Entry(ka, Dict(<<Entry(ka, Num(1))>>))>>),
     Dict(<<Entry(ka, Dict(<<Entry(kb, Num(2))>>))>>),
     Dict(<<Entry(kab, Num(1))>>),
     Dict(<<Entry(ka, List(<<Num(2)>>))>>)}

\* Mappings given to update
UpdateArgs == {Dict(<<>>), Dict(<<Entry(ka, Dict(<<Entry(ka, Num(1))>>))>>)}

\* A str argument holding JSON text
JsonText(toks) == [t |-> "json_text", toks |-> toks]

\* Arguments given to import_
ImportArgs ==
    {Dict(<<Entry(ka, Dict(<<Entry(kb, Num(2))>>))>>),
     Dict(<<Entry(kab, Num(1))>>)}
    \cup {JsonText(dumps(Dict(<<Entry(ka, None)>>))),
          JsonText(dumps(List(<<Num(1)>>))),
          JsonText(<<Tok("{")>>),
          List(<<Num(1)>>)}

\* Environment variables a test or the shell may set, and their values
EnvNames == {_env_key(p) : p \in Paths}
EnvValues == {<<" ", "O", "N">>, <<"9", "0">>}

\* What the file may hold when the store is constructed or after another
\* process wrote it: nothing at all, a mapping, a non-mapping document,
\* text that is no JSON, bytes that are no text
FileContents ==
    {File(dumps(Dict(<<Entry(ka, Dict(<<Entry(kb, Str(<<"1", "0">>))>>))>>))),
     File(dumps(List(<<Num(1)>>))),
     File(dumps(Str(<<"a">>))),
     File(<<Tok("{")>>),
     File(<<BytesTok>>)}

\* Sequences of at most n elements of S
RECURSIVE SeqsUpTo(_, _)
SeqsUpTo(S, n) ==
    IF n = 0 THEN {<<>>}
    ELSE LET shorter == SeqsUpTo(S, n - 1)
         IN  shorter \cup {Append(q, x) : q \in shorter, x \in S}

\* The keys of a delete call: 1..MaxBatch paths, repeats allowed
KeySeqs == {q \in SeqsUpTo(Paths, MaxBatch) : q # <<>>}

---------------------------------------------------------------------------
(* The store *)

NoEnv == [n \in {} |-> <<>>]

Call(op, keys, arg, flag, res, io, ret) ==
    [op |-> op, keys |-> keys, arg |-> arg, flag |-> flag, res |-> res,
     io |-> io, ret |-> ret]

\* The end of a mutator: r is [res, data] of its in-memory part; when that
\* raised, nothing is written, else self.write(self._data) follows.
Persist(r, io) ==
    IF r.res # "ok" THEN [res |-> r.res, data |-> r.data, file |-> file]
    ELSE LET w == write(file, r.data, io)
         IN  [res |-> w.res, data |-> r.data, file |-> w.file]

\* The caller keeps no reference
NoRef == [kind |-> "none", src |-> "none", segs |-> <<>>, value |-> None]

\* The caller's reference, got from call src, is the object that data holds
\* at the key path segs (the root object for no segment)
Alias(src, segs) == [kind |-> "alias", src |-> src, segs |-> segs, value |-> None]

\* The caller's reference, got from call src, is an object of value v that
\* shares nothing with data
Copy(src, v) == [kind |-> "copy", src |-> src, segs |-> <<>>, value |-> v]

\* Vanisher(path) over each file that lets the constructor return
Init ==
    \E f \in FileContents \cup {NoFile} :
        /\ _safe_read(f, "ok").res = "ok"
        /\ data = _safe_read(f, "ok").data
        /\ file = _safe_read(f, "ok").file
        /\ env = NoEnv
        /\ env_override = TRUE
        /\ last = Call("__init__", <<>>, None, FALSE, "ok", "ok", None)
        /\ faults = 0
        /\ held = NoRef

\* Items given to a batch set: one path is a prefix of another
BatchItems == {Entry(ka, Num(1)), Entry(kab, Num(2)), Entry(ka, None)}

DistinctKeys(items) == \A i, j \in 1..Len(items) : i # j => items[i].k # items[j].k

\* The items of a dict given to set: 1..MaxBatch items in iteration order
ItemSeqs == {q \in SeqsUpTo(BatchItems, MaxBatch) : q # <<>> /\ DistinctKeys(q)}

\* io of a call: "ok", or one of kinds while the run has faults left
IoChoice(io, kinds) == io = "ok" \/ (io \in kinds /\ faults < MaxFaults)

\* A mutator call: r is [res, data] of its in-memory part, followed by
\* self.write(self._data) unless that part raised; ref is the reference the
\* caller keeps afterwards
MutatorKeeping(op, keys, arg, flag, r, io, ret, ref) ==
    /\ IoChoice(io, WriteFaults)
    /\ r.res # "ok" => io = "ok"
    /\ data' = Persist(r, io).data
    /\ file' = Persist(r, io).file
    /\ last' = Call(op, keys, arg, flag, Persist(r, io).res, io, ret)
    /\ faults' = IF io = "ok" THEN faults ELSE faults + 1
    /\ held' = ref
    /\ UNCHANGED <<env, env_override>>

\* A mutator call after which the caller keeps no reference
Mutator(op, keys, arg, flag, r, io, ret) ==
    MutatorKeeping(op, keys, arg, flag, r, io, ret, NoRef)

\* Vanisher.set(key, value) with a str key
Set(key, value, io) ==
    Mutator("set", <<key>>, value, FALSE, set(data, Str(key), value), io, None)

\* Vanisher.set(items) with a dict
SetMany(items, io) ==
    Mutator("set_many", <<>>, Dict(items), FALSE, set(data, Dict(items), None), io, None)

\* First arguments of set that are neither a str nor a dict
OtherKeys == {None, Num(1), List(<<Str(ka)>>)}

\* Vanisher.set(key, value) with a key that is neither a str nor a dict
SetOther(key, value, io) ==
    Mutator("set_other", <<>>, key, FALSE, set(data, key, value), io, None)

\* Vanisher.delete(*keys, _return)
Delete(keys, _return, io) ==
    LET r == DeleteLoop(data, keys, Dict(<<>>))
    IN  Mutator("delete", keys, None, _return, Done(r.data), io,
                IF _return THEN r.deleted ELSE None)

\* Vanisher.merge(new_data)
Merge(new_data, io) ==
    Mutator("merge", <<>>, new_data, FALSE, MergeData(data, new_data), io, None)

\* Vanisher.update(data)
Update(new_data, io) ==
    Mutator("update", <<>>, new_data, FALSE, UpdateData(data, new_data), io, None)

\* Vanisher.clear(persist)
Clear(persist, io) ==
    /\ ~persist => io = "ok"
    /\ IF persist
       THEN Mutator("clear", <<>>, None, TRUE, ClearData(data), io, None)
       ELSE /\ data' = ClearData(data).data
            /\ last' = Call("clear", <<>>, None, FALSE, ClearData(data).res, io, None)
            /\ held' = NoRef
            /\ UNCHANGED <<file, env, env_override, faults>>

\* import_ that takes the decoded data over before it checks its type
ImportData_unchecked(d, arg, merge) ==
    LET decoded == IF arg.t = "json_text" THEN loads(arg.toks)
                   ELSE [ok |-> TRUE, value |-> arg]
    IN  IF ~decoded.ok THEN Raised("value_error", d)
        ELSE IF ~IsDict(decoded.value) THEN Raised("type_error", decoded.value)
        ELSE IF merge THEN MergeData(d, decoded.value)
        ELSE Done(decoded.value)

\* The in-memory part of Vanisher.import_: a str is decoded first, anything
\* but a dict is refused, then merge, or replacement by a copy
ImportData(d, arg, merge) ==
    LET decoded == IF arg.t = "json_text" THEN loads(arg.toks)
                   ELSE [ok |-> TRUE, value |-> arg]
    IN  IF ~decoded.ok THEN Raised("value_error", d)
        ELSE IF ~IsDict(decoded.value) THEN Raised("type_error", d)
        ELSE IF merge THEN MergeData(d, decoded.value)
        ELSE Done(decoded.value)

\* Vanisher.import_(data, merge)
Import(arg, merge, io) ==
    Mutator("import_", <<>>, arg, merge, ImportData(data, arg, merge), io, None)

\* Vanisher.import_(self.export("json"), merge)
ImportExport(merge, io) == Import(JsonText(export(data)), merge, io)

\* Vanisher.reload: self._data is assigned only when _safe_read returns
Reload(io) ==
    /\ IoChoice(io, ReadFaults)
    /\ io = "read_fail" => file.exists
    /\ io = "create_fail" => ~file.exists
    /\ data' = IF _safe_read(file, io).res = "ok" THEN _safe_read(file, io).data ELSE data
    /\ file' = _safe_read(file, io).file
    /\ last' = Call("reload", <<>>, None, FALSE, _safe_read(file, io).res, io, None)
    /\ faults' = IF io = "ok" THEN faults ELSE faults + 1
    /\ held' = NoRef
    /\ UNCHANGED <<env, env_override>>

\* config.env_override = b
SetOverride(b) ==
    /\ env_override' = b
    /\ last' = Call("env_override", <<>>, Bool(b), FALSE, "ok", "ok", None)
    /\ UNCHANGED <<data, file, env, faults, held>>

\* os.environ[name] = value, by the process itself
SetEnv(name, value) ==
    /\ env' = [n \in DOMAIN env \cup {name} |-> IF n = name THEN value ELSE env[n]]
    /\ last' = Call("setenv", <<name>>, Str(value), FALSE, "ok", "ok", None)
    /\ UNCHANGED <<data, file, env_override, faults, held>>

\* del os.environ[name]
UnsetEnv(name) ==
    /\ name \in DOMAIN env
    /\ env' = [n \in DOMAIN env \ {name} |-> env[n]]
    /\ last' = Call("unsetenv", <<name>>, None, FALSE, "ok", "ok", None)
    /\ UNCHANGED <<data, file, env_override, faults, held>>

\* Another process rewrites or removes the backing file
ExternalWrite(f) ==
    /\ faults < MaxFaults
    /\ file' = f
    /\ faults' = faults + 1
    /\ last' = Call("external", <<>>, None, FALSE, "ok", "ok", None)
    /\ UNCHANGED <<data, env, env_override, held>>

\* The calls on the store, with a working file system and nobody else
\* touching the file or the environment
Next ==
    \/ \E key \in Paths, value \in SetValues : Set(key, value, "ok")
    \/ \E items \in ItemSeqs : SetMany(items, "ok")
    \/ \E key \in OtherKeys : SetOther(key, Num(1), "ok")
    \/ \E keys \in KeySeqs, r \in BOOLEAN : Delete(keys, r, "ok")
    \/ \E m \in Mappings : Merge(m, "ok")
    \/ \E m \in UpdateArgs : Update(m, "ok")
    \/ \E persist \in BOOLEAN : Clear(persist, "ok")
    \/ \E arg \in ImportArgs, merge \in BOOLEAN : Import(arg, merge, "ok")
    \/ \E merge \in BOOLEAN : ImportExport(merge, "ok")
    \/ Reload("ok")

Spec == Init /\ [][Next]_vars

\* Values and mappings given to the store while the file system fails
IoSetValues == {Num(1), Dict(<<Entry(kb, None)>>)}
IoMappings == {Dict(<<Entry(ka, Dict(<<Entry(kb, Num(2))>>))>>), Dict(<<>>)}
IoImportArgs == {Dict(<<Entry(kab, Num(1))>>), JsonText(dumps(List(<<Num(1)>>)))}

WriteIo == {"ok"} \cup WriteFaults
ReadIo == {"ok"} \cup ReadFaults

\* The calls on the store while the file system may fail and another
\* process may rewrite or remove the file
NextIo ==
    \/ \E key \in Paths, value \in IoSetValues, io \in WriteIo : Set(key, value, io)
    \/ \E items \in ItemSeqs, io \in WriteIo : SetMany(items, io)
    \/ \E keys \in KeySeqs, r \in BOOLEAN, io \in WriteIo : Delete(keys, r, io)
    \/ \E m \in IoMappings, io \in WriteIo : Merge(m, io)
    \/ \E m \in UpdateArgs, io \in WriteIo : Update(m, io)
    \/ \E persist \in BOOLEAN, io \in WriteIo : Clear(persist, io)
    \/ \E arg \in IoImportArgs, merge \in BOOLEAN, io \in WriteIo : Import(arg, merge, io)
    \/ \E merge \in BOOLEAN, io \in WriteIo : ImportExport(merge, io)
    \/ \E io \in ReadIo : Reload(io)
    \/ \E f \in FileContents \cup {NoFile} : ExternalWrite(f)

SpecIo == Init /\ [][NextIo]_vars

\* Values and mappings given to the store while the environment changes
EnvSetValues == {Num(1), Dict(<<Entry(kb, Num(1))>>)}
EnvMappings == {Dict(<<Entry(ka, Dict(<<Entry(kb, Num(2))>>))>>)}

\* The calls on the store with a working file system, and the process
\* changing its environment and the env_override attribute
NextEnv ==
    \/ \E key \in Paths, value \in EnvSetValues : Set(key, value, "ok")
    \/ \E keys \in KeySeqs, r \in BOOLEAN : Delete(keys, r, "ok")
    \/ \E m \in EnvMappings : Merge(m, "ok")
    \/ \E persist \in BOOLEAN : Clear(persist, "ok")
    \/ \E m \in EnvMappings, merge \in BOOLEAN : Import(m, merge, "ok")
    \/ Reload("ok")
    \/ \E b \in BOOLEAN : SetOverride(b)
    \/ \E name \in EnvNames, value \in EnvValues : SetEnv(name, value)
    \/ \E name \in EnvNames : UnsetEnv(name)

SpecEnv == Init /\ [][NextEnv]_vars

---------------------------------------------------------------------------
(* The references a caller gets from the store, and what it does to them *)

\* isinstance(v, (dict, list)): the objects a caller can change in place
IsMutable(v) == v.t \in {"dict", "list"}

\* The object _resolve returns for key, as a reference: the environment
\* string or the default are the caller's own, a value found by the walk is
\* the object that data holds there
_resolve_ref(src, d, e, ov, key, default) ==
    IF _check_env(e, ov, key) # None THEN Copy(src, _check_env(e, ov, key))
    ELSE IF Walk(d, Split(key)).found THEN Alias(src, Split(key))
    ELSE Copy(src, default)

\* The value of the object a reference points to
RefValue(ref, d) == IF ref.kind = "alias" THEN Walk(d, ref.segs).value ELSE ref.value

\* What Vanisher.get_dict returns, as a reference: val itself when it is a dict
get_dict_ref(d, e, ov, key, default) ==
    LET ref == _resolve_ref("get_dict", d, e, ov, key, default)
    IN  IF IsDict(RefValue(ref, d)) THEN ref ELSE Copy("get_dict", default)

\* What Vanisher.get_list returns, as a reference: val itself when it is a
\* list, a new list for a str
get_list_ref(d, e, ov, key, default) ==
    LET ref == _resolve_ref("get_list", d, e, ov, key, default)
    IN  IF RefValue(ref, d).t = "list" THEN ref
        ELSE Copy("get_list", ListOr(RefValue(ref, d), default))

\* to_dict that returns the mapping itself
to_dict_live(d) == Alias("to_dict", <<>>)

\* Vanisher.to_dict: deepcopy(self._data)
to_dict(d) == Copy("to_dict", d)

\* The data property: self._data itself
data_property(d) == Alias("data", <<>>)

\* d with the object at key path segs replaced by v
RECURSIVE ReplaceAt(_, _, _)
ReplaceAt(d, segs, v) ==
    IF segs = <<>> THEN v
    ELSE Put(d, Head(segs), ReplaceAt(Lookup(d, Head(segs)), Tail(segs), v))

\* What a caller does to a dict or list it holds: obj["b"] = 9 or
\* obj[0] = 9, and obj.clear()
Mutations == {"setitem", "clear"}

CanMutate(obj, mu) ==
    /\ IsMutable(obj)
    /\ (obj.t = "list" /\ mu = "setitem") => obj.xs # <<>>

Mutated(obj, mu) ==
    CASE mu = "clear" /\ obj.t = "dict"   -> Dict(<<>>)
      [] mu = "clear" /\ obj.t = "list"   -> List(<<>>)
      [] mu = "setitem" /\ obj.t = "dict" -> Put(obj, kb, Num(9))
      [] mu = "setitem" /\ obj.t = "list" -> List([obj.xs EXCEPT ![1] = Num(9)])

\* A call that returns the reference ref and changes nothing
Getter(op, keys, ref) ==
    /\ held' = ref
    /\ last' = Call(op, keys, None, FALSE, "ok", "ok", None)
    /\ UNCHANGED <<data, file, env, env_override, faults>>

\* Vanisher.get(key), the caller keeping what it returns
Get(key) == Getter("get", <<key>>, _resolve_ref("get", data, env, env_override, key, None))

\* Vanisher.get_dict(key)
GetDict(key) == Getter("get_dict", <<key>>, get_dict_ref(data, env, env_override, key, None))

\* Vanisher.get_list(key)
GetList(key) == Getter("get_list", <<key>>, get_list_ref(data, env, env_override, key, None))

\* Vanisher.data
DataProperty == Getter("data", <<>>, data_property(data))

\* Vanisher.to_dict()
ToDict == Getter("to_dict", <<>>, to_dict(data))

\* Vanisher.set(key, value), the caller keeping value: _set_single stores
\* the object it is given
SetKeeping(key, value) ==
    LET r == set(data, Str(key), value)
    IN  MutatorKeeping("set", <<key>>, value, FALSE, r, "ok", None,
                       IF r.res = "ok" THEN Alias("set", Split(key))
                       ELSE Copy("set", value))

\* Vanisher.merge(new_data), the caller keeping new_data: _deep_merge stores
\* deep copies
MergeKeeping(new_data) ==
    MutatorKeeping("merge", <<>>, new_data, FALSE, MergeData(data, new_data), "ok",
                   None, Copy("merge", new_data))

\* Vanisher.import_(arg, merge), the caller keeping arg: merged as by merge,
\* or replaced by a deep copy
ImportKeeping(arg, merge) ==
    MutatorKeeping("import_", <<>>, arg, merge, ImportData(data, arg, merge), "ok",
                   None, Copy("import_", arg))

\* The caller changes in place the object it holds, or the one at key path
\* at inside it
CallerMutate(at, mu) ==
    LET target == Walk(RefValue(held, data), at)
    IN  /\ held.kind # "none"
        /\ target.found /\ CanMutate(target.value, mu)
        /\ IF held.kind = "alias"
           THEN /\ data' = ReplaceAt(data, held.segs \o at, Mutated(target.value, mu))
                /\ held' = held
           ELSE /\ data' = data
                /\ held' = Copy(held.src,
                                ReplaceAt(held.value, at, Mutated(target.value, mu)))
        /\ last' = Call("mutate", at, None, FALSE, "ok", "ok", None)
        /\ UNCHANGED <<file, env, env_override, faults>>

\* Mutable values given to set, merge and import_ by a caller that keeps them
KeptValues == {Dict(<<Entry(kb, Num(1))>>), List(<<Num(1)>>)}
KeptMappings ==
    {Dict(<<Entry(ka, Dict(<<Entry(kb, Num(2))>>))>>),
     Dict(<<Entry(ka, Dict(<<Entry(ka, List(<<Num(2)>>))>>))>>)}

\* The calls of a caller that keeps the objects it gets from the store or
\* gives to it, and changes them in place
NextAlias ==
    \/ \E key \in Paths, value \in KeptValues : SetKeeping(key, value)
    \/ \E m \in KeptMappings : MergeKeeping(m)
    \/ \E m \in KeptMappings, merge \in BOOLEAN : ImportKeeping(m, merge)
    \/ \E key \in Paths : Get(key)
    \/ \E key \in Paths : GetDict(key)
    \/ \E key \in Paths : GetList(key)
    \/ DataProperty
    \/ ToDict
    \/ \E at \in {<<>>, <<ka>>}, mu \in Mutations : CallerMutate(at, mu)
    \/ Reload("ok")

SpecAlias == Init /\ [][NextAlias]_vars

k314 == <<"3", ".", "1", "4">>

\* Raw values of every kind given to set before a typed getter reads them
TypedValues ==
    {None, Bool(FALSE), Num(0), Float("fin", 314), Float("inf", 0), Str(k314),
     List(<<Num(1)>>), Dict(<<Entry(kb, Num(1))>>)}

\* The calls that decide what a getter resolves: values of every kind are
\* stored, deleted and read back from the file, and the environment changes
NextGet ==
    \/ \E key \in Paths, value \in TypedValues : Set(key, value, "ok")
    \/ \E key \in Paths : Delete(<<key>>, FALSE, "ok")
    \/ Reload("ok")
    \/ \E b \in BOOLEAN : SetOverride(b)
    \/ \E name \in EnvNames, value \in EnvValues : SetEnv(name, value)
    \/ \E name \in EnvNames : UnsetEnv(name)

SpecGet == Init /\ [][NextGet]_vars

---------------------------------------------------------------------------
(* Properties *)

\* Defaults given to the getters
Defaults == {None, Num(7)}

\* An environment override is active for path p
Overridden(p) == _check_env(env, env_override, p) # None

\* The call last made was op on the single path last.keys[1]
LastOn(op) == last.op = op /\ Len(last.keys) = 1

\* C1: in every reachable state, for every path p and value v, when no
\* environment override exists for p, set(p, v) followed by get(p) returns v.
C1_SetThenGet ==
    (LastOn("set") /\ last.io = "ok" /\ ~Overridden(last.keys[1]))
        => get(data, env, env_override, last.keys[1], None) = last.arg

\* Where set returns (the root of data is a mapping), get gives the value back.
SetThenGetWhereSetReturns ==
    (LastOn("set") /\ last.res = "ok" /\ ~Overridden(last.keys[1]))
        => /\ has(data, env, env_override, last.keys[1])
           /\ \A dflt \in Defaults :
                get(data, env, env_override, last.keys[1], dflt) = last.arg

\* C2: for every path p with an active environment override of value e,
\* get(p) returns e, and get_int and get_bool coerce e, whatever was stored,
\* deleted, merged, cleared or imported at p before.
C2_EnvOverrideWins ==
    \A p \in Paths, dflt \in Defaults :
        Overridden(p) =>
            LET e == Str(env[_env_key(p)])
            IN  /\ get(data, env, env_override, p, dflt) = e
                /\ get_int(data, env, env_override, p, dflt) = IntOr(e, dflt)
                /\ get_bool(data, env, env_override, p, dflt) = BoolOr(e, dflt)

\* An override is active for a.b while set has just stored another value there
C2_Witness ==
    /\ Overridden(kab)
    /\ Walk(data, Split(kab)).found
    /\ Walk(data, Split(kab)).value # Str(env[_env_key(kab)])

\* C3 as stated: after delete(p), has(p) returns false, and a second
\* delete(p, _return=True) returns an empty mapping.
C3_DeleteThenHasNot ==
    LastOn("delete") =>
        /\ ~has(data, env, env_override, last.keys[1])
        /\ DeleteLoop(data, last.keys, Dict(<<>>)).deleted = Dict(<<>>)

\* C3 as amended: after delete(p), has(p) returns false unless an environment
\* override is active for p (then it returns true), and a second
\* delete(p, _return=True) returns an empty mapping.
C3_DeleteThenHasNotUnlessOverridden ==
    LastOn("delete") =>
        /\ has(data, env, env_override, last.keys[1]) <=> Overridden(last.keys[1])
        /\ DeleteLoop(data, last.keys, Dict(<<>>)).deleted = Dict(<<>>)

\* delete(p, _return=True) has just removed a value and no override is active
C3_Witness ==
    /\ LastOn("delete")
    /\ last.flag /\ last.ret # Dict(<<>>)
    /\ ~Overridden(last.keys[1])

\* C4: after every successful set, delete, merge, import_ or
\* clear(persist=True), the file decodes to the in-memory data, and a reload
\* leaves data (and so every get) unchanged.
C4_FileEqualsData ==
    (/\ \/ last.op \in {"set", "set_many", "delete", "merge", "import_"}
        \/ last.op = "clear" /\ last.flag
     /\ last.res = "ok")
        => /\ loads(file.toks) = [ok |-> TRUE, value |-> data]
           /\ _safe_read(file, "ok") = [res |-> "ok", data |-> data, file |-> file]

\* A set has succeeded after the file system failed or another process wrote
\* the file
C4_Witness == last.op = "set" /\ last.res = "ok" /\ faults > 0

\* C5: in every reachable state the root of data is a mapping.
C5_RootIsMapping == IsDict(data)

kaa == <<"a", ".", "a">>

\* C6: merge(newData) is a deep merge: at every key k of newData the result
\* is the recursive merge when the existing and the incoming value are both
\* mappings, and the incoming value otherwise; every other key of data keeps
\* its value.  In particular merge({a: {a: 1}}) followed by
\* merge({a: {b: 2}}) gives get("a.a") = 1 and get("a.b") = 2.
C6_DeepMerge ==
    [][last'.op = "merge" =>
        /\ \A k \in KeySet(last'.arg) :
            /\ IsDict(data') /\ HasKey(data', k)
            /\ Lookup(data', k) =
                 IF /\ IsDict(data) /\ HasKey(data, k)
                    /\ IsDict(Lookup(data, k)) /\ IsDict(Lookup(last'.arg, k))
                 THEN _deep_merge(Lookup(data, k), Lookup(last'.arg, k))
                 ELSE Lookup(last'.arg, k)
        /\ IsDict(data) =>
             \A k \in KeySet(data) \ KeySet(last'.arg) :
                 IsDict(data') /\ HasKey(data', k) /\ Lookup(data', k) = Lookup(data, k)
        /\ (/\ last.op = "merge"
            /\ last.arg = Dict(<<Entry(ka, Dict(<<Entry(ka, Num(1))>>))>>)
            /\ last'.arg = Dict(<<Entry(ka, Dict(<<Entry(kb, Num(2))>>))>>))
             => /\ get(data', env', env_override', kaa, None) = Num(1)
                /\ get(data', env', env_override', kab, None) = Num(2)
      ]_vars

\* Where merge returns (the root of data is a mapping, or newData is empty),
\* it is that deep merge.
DeepMergeWhereMergeReturns ==
    [][(last'.op = "merge" /\ last'.res = "ok") =>
        /\ \A k \in KeySet(last'.arg) :
            /\ IsDict(data') /\ HasKey(data', k)
            /\ Lookup(data', k) =
                 IF /\ IsDict(data) /\ HasKey(data, k)
                    /\ IsDict(Lookup(data, k)) /\ IsDict(Lookup(last'.arg, k))
                 THEN _deep_merge(Lookup(data, k), Lookup(last'.arg, k))
                 ELSE Lookup(last'.arg, k)
        /\ IsDict(data) =>
             \A k \in KeySet(data) \ KeySet(last'.arg) :
                 IsDict(data') /\ HasKey(data', k) /\ Lookup(data', k) = Lookup(data, k)
        /\ (/\ last.op = "merge" /\ last.res = "ok"
            /\ last.arg = Dict(<<Entry(ka, Dict(<<Entry(ka, Num(1))>>))>>)
            /\ last'.arg = Dict(<<Entry(ka, Dict(<<Entry(kb, Num(2))>>))>>))
             => /\ get(data', env', env_override', kaa, None) = Num(1)
                /\ get(data', env', env_override', kab, None) = Num(2)
      ]_vars

\* C7, on the states whose root is a mapping: the number of paths
\* list_keys() returns equals len(store), and every path it returns resolves
\* via get to a non-mapping value.
C7_ListKeysResolve ==
    IsDict(data) =>
        /\ list_keys(data).res = "ok"
        /\ len(data) = [res |-> "ok", n |-> Len(list_keys(data).keys)]
        /\ \A i \in 1..Len(list_keys(data).keys) :
             ~IsDict(get(data, env, env_override, list_keys(data).keys[i], None))

\* C8: clear() empties the in-memory data (len(store) = 0) and leaves the
\* file as it is, so that a reload restores what the file held before;
\* clear(persist=True) also writes the empty mapping, so that a reload gives
\* an empty store.
C8_ClearAndReload ==
    [][last'.op = "clear" =>
        IF ~last'.flag
        THEN /\ len(data') = [res |-> "ok", n |-> 0]
             /\ file' = file
             /\ _safe_read(file', "ok").data = _safe_read(file, "ok").data
        ELSE last'.io = "ok" =>
             /\ len(data') = [res |-> "ok", n |-> 0]
             /\ loads(file'.toks) = [ok |-> TRUE, value |-> Dict(<<>>)]
             /\ len(_safe_read(file', "ok").data) = [res |-> "ok", n |-> 0]
      ]_vars

\* On a store whose root is a mapping, clear and a reload behave that way.
ClearAndReloadOnMapping ==
    [][(last'.op = "clear" /\ IsDict(data)) =>
        IF ~last'.flag
        THEN /\ len(data') = [res |-> "ok", n |-> 0]
             /\ file' = file
        ELSE last'.io = "ok" =>
             /\ len(data') = [res |-> "ok", n |-> 0]
             /\ loads(file'.toks) = [ok |-> TRUE, value |-> Dict(<<>>)]
             /\ len(_safe_read(file', "ok").data) = [res |-> "ok", n |-> 0]
      ]_vars

\* C9: in every reachable state, import_(export("json")), with merge or
\* without, leaves to_dict() equal to what it was, and leaves the file
\* holding that same mapping.
C9_ImportExportRoundTrip ==
    [][(/\ last'.op = "import_"
        /\ last'.arg = JsonText(export(data))
        /\ last'.io = "ok")
        => /\ PyEq(data', data)
           /\ loads(file'.toks).ok
           /\ PyEq(loads(file'.toks).value, data)
      ]_vars

\* On a store whose root is a mapping, the round trip leaves data as it was
\* and the file holding it.
ImportExportOnMapping ==
    [][(/\ last'.op = "import_"
        /\ last'.arg = JsonText(export(data))
        /\ last'.io = "ok"
        /\ IsDict(data))
        => /\ data' = data
           /\ last'.res = "ok"
           /\ loads(file'.toks) = [ok |-> TRUE, value |-> data]
      ]_vars

\* The requested paths present when they are processed, each with the value
\* it holds then
RECURSIVE PresentAtDelete(_, _, _)
PresentAtDelete(d, keys, acc) ==
    IF keys = <<>> THEN acc
    ELSE LET w == Walk(d, Split(Head(keys)))
         IN  PresentAtDelete(_delete_single(d, Head(keys)).data, Tail(keys),
                             IF w.found THEN Put(acc, Head(keys), w.value) ELSE acc)

\* C10: delete(*paths, _return=True) returns the mapping of exactly the
\* requested paths that were present when processed, a stored null included,
\* each to the value it held.
C10_DeleteReturnsPresent ==
    [][(last'.op = "delete" /\ last'.flag)
        => last'.ret = PresentAtDelete(data, last'.keys, Dict(<<>>))
      ]_vars

\* The value the i-th requested path holds when the loop of delete reaches it
AtDelete(d, keys, i) ==
    Walk(DeleteLoop(d, SubSeq(keys, 1, i - 1), Dict(<<>>)).data, Split(keys[i]))

\* A requested path is reported exactly when, at one of its occurrences, it
\* was present with a value other than null, and then with that value.
DeleteReturnsNonNull ==
    [][(last'.op = "delete" /\ last'.flag)
        => \A i \in 1..Len(last'.keys) :
             LET hits == {j \in 1..Len(last'.keys) :
                            /\ last'.keys[j] = last'.keys[i]
                            /\ AtDelete(data, last'.keys, j).found
                            /\ AtDelete(data, last'.keys, j).value # None}
             IN  /\ HasKey(last'.ret, last'.keys[i]) <=> hits # {}
                 /\ \A j \in hits :
                      Lookup(last'.ret, last'.keys[i]) = AtDelete(data, last'.keys, j).value
      ]_vars

\* Well-typed defaults given to each typed getter
IntDefaults == {None, Num(0)}
FloatDefaults == {None, Float("fin", 50)}
BoolDefaults == {None, Bool(TRUE)}
StrDefaults == {None, Str(kb)}
ListDefaults == {None, List(<<>>)}
DictDefaults == {None, Dict(<<>>)}

\* What the typed getters return for path p, each with each of its defaults
GetterResults(p) ==
    {<<"get_int", dflt, get_int(data, env, env_override, p, dflt)>> : dflt \in IntDefaults}
    \cup {<<"get_float", dflt, get_float(data, env, env_override, p, dflt)>> :
            dflt \in FloatDefaults}
    \cup {<<"get_bool", dflt, get_bool(data, env, env_override, p, dflt)>> :
            dflt \in BoolDefaults}
    \cup {<<"get_str", dflt, get_str(data, env, env_override, p, dflt)>> :
            dflt \in StrDefaults}
    \cup {<<"get_list", dflt, get_list(data, env, env_override, p, dflt)>> :
            dflt \in ListDefaults}
    \cup {<<"get_dict", dflt, get_dict(data, env, env_override, p, dflt)>> :
            dflt \in DictDefaults}

\* C11: every typed getter, on every reachable state, path, default and raw
\* value kind, never raises; it returns the default when the key is absent;
\* get_int on an absent key with default 0 returns 0; with the string "3.14"
\* stored, get_float returns 3.14 and get_bool the default.
C11_TypedGettersNeverRaise ==
    \A p \in Paths :
        /\ \A g \in GetterResults(p) :
              /\ g[3].t # "raise"
              /\ ~has(data, env, env_override, p) => g[3] = g[2]
        /\ (~Overridden(p) /\ _get_single(data, p, None) = Str(k314)) =>
              /\ get_float(data, env, env_override, p, None) = Float("fin", 314)
              /\ \A dflt \in BoolDefaults :
                    get_bool(data, env, env_override, p, dflt) = dflt

\* A typed getter raises only as get_int on an infinite float; in every
\* other case it returns the default when the key is absent, and the
\* scenario of the string "3.14" holds.
TypedGettersRaiseOnlyOnInfinity ==
    \A p \in Paths :
        /\ \A g \in GetterResults(p) :
              /\ g[3].t = "raise" =>
                    /\ g[1] = "get_int"
                    /\ _resolve(data, env, env_override, p, None).t = "float"
                    /\ _resolve(data, env, env_override, p, None).k \in {"inf", "ninf"}
              /\ ~has(data, env, env_override, p) => g[3] = g[2]
        /\ (~Overridden(p) /\ _get_single(data, p, None) = Str(k314)) =>
              /\ get_float(data, env, env_override, p, None) = Float("fin", 314)
              /\ \A dflt \in BoolDefaults :
                    get_bool(data, env, env_override, p, dflt) = dflt

\* A fresh object given as default, equal to no stored or environment value
Sentinel == [t |-> "sentinel"]

\* C12: in every reachable state, for every path p and environment, has(p)
\* is true exactly when get(p, default=S) returns something other than the
\* fresh sentinel S: when an enabled environment override is present for p
\* or the walk over data reaches p, a stored null included.
C12_HasIffGetFinds ==
    \A p \in Paths :
        /\ has(data, env, env_override, p)
              <=> get(data, env, env_override, p, Sentinel) # Sentinel
        /\ has(data, env, env_override, p)
              <=> (Overridden(p) \/ Walk(data, Split(p)).found)

\* null is stored at a path that has no override
C12_Witness ==
    \E p \in Paths :
        /\ ~Overridden(p)
        /\ Walk(data, Split(p)) = [found |-> TRUE, value |-> None]
        /\ last.op = "set"

\* An argument of import_ that is neither a mapping nor a JSON string
\* decoding to a mapping
BadImport(arg) ==
    IF arg.t = "json_text" THEN ~loads(arg.toks).ok \/ ~IsDict(loads(arg.toks).value)
    ELSE ~IsDict(arg)

\* C13 as stated: set with a first argument that is neither a string nor a
\* mapping, and import_ with an argument that is neither a mapping nor a JSON
\* string decoding to a mapping, fail with a type error and leave the
\* in-memory data and the file as they were.
C13_BadInputTypeError ==
    [][(\/ last'.op = "set_other"
        \/ last'.op = "import_" /\ BadImport(last'.arg))
        => /\ last'.res = "type_error"
           /\ data' = data
           /\ file' = file
      ]_vars

\* C13 as amended: they fail with a type error, except that a string the
\* JSON decoder rejects fails with the decoder's error; the in-memory data
\* and the file are left as they were.
C13_BadInputLeavesStore ==
    [][(\/ last'.op = "set_other"
        \/ last'.op = "import_" /\ BadImport(last'.arg))
        => /\ last'.res = IF last'.arg.t = "json_text" /\ ~loads(last'.arg.toks).ok
                          THEN "value_error"
                          ELSE "type_error"
           /\ data' = data
           /\ file' = file
      ]_vars

\* import_ has refused a JSON string that decodes to a sequence, on a store
\* that holds something
C13_Witness ==
    /\ last.op = "import_" /\ last.res = "type_error"
    /\ last.arg = JsonText(dumps(List(<<Num(1)>>)))
    /\ IsDict(data) /\ data # Dict(<<>>)

\* The mutators that end with a write of data to the file
Persisting(c) ==
    \/ c.op \in {"set", "set_many", "delete", "merge", "import_"}
    \/ c.op = "clear" /\ c.flag

\* C14: when the write to the file fails during set, delete, merge, import_
\* or clear(persist=True), the error is surfaced as a wrapped I/O error and
\* the in-memory data is the same as before the call.
C14_FailedWriteKeepsData ==
    [][(Persisting(last') /\ last'.io \in WriteFaults)
        => /\ last'.res = "io_error"
           /\ data' = data
      ]_vars

\* A failed write is surfaced as the wrapped error, and the in-memory data
\* is what the call made of it before the write.
FailedWriteIsSurfaced ==
    [][(Persisting(last') /\ last'.io \in WriteFaults)
        => /\ last'.res = "io_error"
           /\ last'.op = "set" =>
                data' = set(data, Str(last'.keys[1]), last'.arg).data
           /\ last'.op = "delete" =>
                data' = DeleteLoop(data, last'.keys, Dict(<<>>)).data
           /\ last'.io = "open_fail" => file' = file
      ]_vars

\* Paths read back after a caller changed an object it holds
QueryPaths == Paths \cup {kaa, kb, <<"a", ".", "b", ".", "b">>}

\* The store answers get, has and list_keys in the next state as in this one
SameAnswers ==
    /\ \A p \in QueryPaths :
          /\ get(data', env', env_override', p, None) = get(data, env, env_override, p, None)
          /\ has(data', env', env_override', p) = has(data, env, env_override, p)
    /\ list_keys(data') = list_keys(data)

\* C15: no reference held by a caller aliases the store's mapping: changing
\* in place an object returned by get, get_dict, get_list or the data
\* property, or one passed to set, merge or import_, never changes what
\* get and list_keys return afterwards and never makes the in-memory
\* data differ from the file.
C15_NoAliasing ==
    [][(/\ last'.op = "mutate"
        /\ held.src \in {"get", "get_dict", "get_list", "data", "set", "merge", "import_"})
        => /\ SameAnswers
           /\ loads(file.toks) = [ok |-> TRUE, value |-> data]
                => loads(file'.toks) = [ok |-> TRUE, value |-> data']
      ]_vars

\* Changing an object that was passed to merge or import_ changes nothing
\* of the store: both keep deep copies.
MergeAndImportKeepCopies ==
    [][(last'.op = "mutate" /\ held.src \in {"merge", "import_"})
        => SameAnswers /\ data' = data /\ file' = file
      ]_vars

\* C16: to_dict() returns a deep, independent copy: it equals data at the
\* time of the call, and changing it at any nesting depth leaves data, the
\* file and the results of get, has and list_keys as they were.
C16_ToDictIsIndependent ==
    [][/\ last'.op = "to_dict" =>
            /\ RefValue(held', data') = data
            /\ data' = data /\ file' = file
       /\ (last'.op = "mutate" /\ held.src = "to_dict") =>
            /\ data' = data /\ file' = file
            /\ SameAnswers
      ]_vars

\* The mapping returned by to_dict() has been changed below its top level
\* while the store holds a nested mapping
C16_Witness ==
    /\ last.op = "mutate" /\ last.keys = <<ka>>
    /\ held.src = "to_dict"
    /\ IsDict(data) /\ HasKey(data, ka) /\ IsDict(Lookup(data, ka))
    /\ Lookup(data, ka) # Dict(<<>>)
    /\ held.value # data

\* C17: reading the file never raises to the caller: reload() returns
\* normally; over a missing file it creates the file holding an empty
\* mapping and data is empty; over a file that cannot be parsed data is the
\* empty mapping and the file is not modified.
C17_ReadNeverRaises ==
    [][last'.op = "reload" =>
        /\ last'.res = "ok"
        /\ ~file.exists =>
              data' = Dict(<<>>) /\ file' = File(dumps(Dict(<<>>)))
        /\ (file.exists /\ ~loads(file.toks).ok) =>
              data' = Dict(<<>>) /\ file' = file
      ]_vars

\* reload() raises only over bytes that are no UTF-8 text and over a missing
\* file that cannot be created, and then leaves data and the file alone;
\* otherwise it creates a missing file holding an empty mapping and reads a
\* file that is no JSON, or cannot be opened, as the empty mapping.
ReadRecoversFromTextAndOSError ==
    [][last'.op = "reload" =>
        IF (file.exists /\ ~IsText(file.toks) /\ last'.io = "ok") \/ last'.io = "create_fail"
        THEN last'.res # "ok" /\ data' = data /\ file' = file
        ELSE /\ last'.res = "ok"
             /\ ~file.exists =>
                   data' = Dict(<<>>) /\ file' = File(dumps(Dict(<<>>)))
             /\ (file.exists /\ ~loads(file.toks).ok) =>
                   data' = Dict(<<>>) /\ file' = file
      ]_vars

\* What get, has and the typed getters return for path p in the next state,
\* reading the environment e
AnswersWith(e, p) ==
    <<{<<dflt, get(data', e, env_override', p, dflt)>> : dflt \in Defaults},
      has(data', e, env_override', p),
      {<<dflt, get_int(data', e, env_override', p, dflt)>> : dflt \in IntDefaults},
      {<<dflt, get_float(data', e, env_override', p, dflt)>> : dflt \in FloatDefaults},
      {<<dflt, get_bool(data', e, env_override', p, dflt)>> : dflt \in BoolDefaults},
      {<<dflt, get_str(data', e, env_override', p, dflt)>> : dflt \in StrDefaults},
      {<<dflt, get_list(data', e, env_override', p, dflt)>> : dflt \in ListDefaults},
      {<<dflt, get_dict(data', e, env_override', p, dflt)>> : dflt \in DictDefaults}>>

\* C18: when env_override is false the environment is ignored: get, has and
\* every typed getter return for every path what the walk over data alone
\* gives, whatever the environment holds; setting env_override to true
\* again restores the precedence of the environment, and neither change of
\* env_override changes data or the file.
C18_OverrideOffIgnoresEnv ==
    [][/\ ~env_override' =>
            \A p \in Paths :
                /\ AnswersWith(env', p) = AnswersWith(NoEnv, p)
                /\ \A dflt \in Defaults :
                      get(data', env', env_override', p, dflt) = _get_single(data', p, dflt)
                /\ has(data', env', env_override', p) = Walk(data', Split(p)).found
       /\ last'.op = "env_override" =>
            /\ data' = data /\ file' = file
            /\ env_override' =>
                  \A p \in Paths :
                      _env_key(p) \in DOMAIN env' =>
                          /\ get(data', env', env_override', p, None) = Str(env'[_env_key(p)])
                          /\ has(data', env', env_override', p)
      ]_vars

\* env_override has just been set to false while the environment holds a
\* variable for a path that data has with another value
C18_Witness ==
    /\ last.op = "env_override" /\ ~env_override
    /\ \E p \in Paths :
          /\ _env_key(p) \in DOMAIN env
          /\ Walk(data, Split(p)).found
          /\ Walk(data, Split(p)).value # Str(env[_env_key(p)])

\* The calls set(p1, v1); ...; set(pn, vn) made one after the other on data
\* d and file f, each with its own write: [data, file] after the last
RECURSIVE SingleSets(_, _, _)
SingleSets(d, f, items) ==
    IF items = <<>> THEN [data |-> d, file |-> f]
    ELSE LET r == set(d, Str(Head(items).k), Head(items).v)
         IN  IF r.res = "ok"
             THEN SingleSets(r.data, write(f, r.data, "ok").file, Tail(items))
             ELSE SingleSets(d, f, Tail(items))

\* C19: set({p1: v1, ..., pn: vn}) leaves data and the file in the same
\* final state as set(p1, v1); ...; set(pn, vn) in the mapping's iteration
\* order, also when one path is a prefix of another.
C19_BatchSetIsSequential ==
    [][last'.op = "set_many" =>
        /\ data' = SingleSets(data, file, last'.arg.es).data
        /\ file' = SingleSets(data, file, last'.arg.es).file
      ]_vars

\* A batch set has stored "a" and then "a.b", the second extending what the
\* first wrote
C19_Witness ==
    /\ last.op = "set_many" /\ last.res = "ok"
    /\ Len(last.arg.es) = 2
    /\ last.arg.es[1].k = ka /\ last.arg.es[2].k = kab
    /\ get(data, env, env_override, kab, None) = last.arg.es[2].v

\* Segment-wise, path p is a prefix of path q
IsPrefix(p, q) ==
    /\ Len(Split(p)) <= Len(Split(q))
    /\ SubSeq(Split(q), 1, Len(Split(p))) = Split(p)

\* C20: with no environment override in play, set(p, v) and delete(p) leave
\* get(q) and has(q) as they were for every path q such that neither p is a
\* prefix of q nor q of p; and after delete(p) every proper prefix q of p
\* that has(q) was true of is still there.
C20_FrameOfSetAndDelete ==
    [][(last'.op \in {"set", "delete"} /\ Len(last'.keys) = 1) =>
        LET p == last'.keys[1]
        IN  \A q \in QueryPaths :
              /\ (~IsPrefix(p, q) /\ ~IsPrefix(q, p)) =>
                    /\ \A dflt \in Defaults :
                          get(data', env', env_override', q, dflt)
                              = get(data, env, env_override, q, dflt)
                    /\ has(data', env', env_override', q) = has(data, env, env_override, q)
              /\ (/\ last'.op = "delete"
                  /\ IsPrefix(q, p) /\ q # p
                  /\ has(data, env, env_override, q))
                    => has(data', env', env_override', q)
      ]_vars

\* set("a.b", v) has just been made on a store that has "a.a"
C20_Witness ==
    /\ last.op = "set" /\ last.keys = <<kab>> /\ last.res = "ok"
    /\ has(data, env, env_override, kaa)

===========================================================================
